---- MODULE Spec2Model ----
(***************************************************************************)
(* Model of the OpenCV-applications repository:                            *)
(*   src/Image Manipulation/ImageManipulation.py                           *)
(*       round_corners_no_cutoff, add_sharp_border, add_shadow_no_cutoff   *)
(*   src/color detection with opencv/color_detection.py                    *)
(*       the capture / display loop                                        *)
(*                                                                         *)
(* An image is a record [mode, w, h, px]; px[y][x] (origin at the top      *)
(* left) is the tuple of 8-bit channels of the mode: <<v>> for "L",        *)
(* <<r,g,b>> for "RGB", <<r,g,b,a>> for "RGBA".  The Pillow calls the      *)
(* source makes are modelled by what they do to such records, with the     *)
(* integer arithmetic of Pillow's 8-bit kernels.                           *)
(***************************************************************************)
EXTENDS Integers, Sequences, FiniteSets, TLC

VARIABLES image, call, locals, ret,
          pc, cap, frame, key, windows, trackbar, range, nread

vars == <<image, call, locals, ret, pc, cap, frame, key, windows, trackbar, range, nread>>
imgVars == <<image, call, locals, ret>>
capVars == <<pc, cap, frame, key, windows, trackbar, range, nread>>

(* ------------------------------ bounds -------------------------------- *)
MaxW == 2
MaxH == 2
MaxRadius == 2
MaxBorder == 2
MaxOffset == 1
MaxSigma == 1
MaxPad == 1
MaxFrames == 3

(* --------------------------- small helpers ---------------------------- *)
Max2(a, b) == IF a >= b THEN a ELSE b
Min2(a, b) == IF a <= b THEN a ELSE b
Max3(a, b, c) == Max2(a, Max2(b, c))
Clamp(v, lo, hi) == Max2(lo, Min2(v, hi))
Cols(im) == 0..(im.w - 1)
Rows(im) == 0..(im.h - 1)

(* A pixel map with its values computed once (TLC otherwise recomputes a   *)
(* function expression's value at every application).                      *)
Table(f) == IF f = f THEN f ELSE f

(* Pillow's 8-bit rounding division by 255: SHIFTFORDIV255 and DIV255.     *)
ShiftForDiv255(a) == (((a \div 256) + a) \div 256)
Div255(a) == ShiftForDiv255(a + 128)

(* ------------------------- Pillow primitives -------------------------- *)
(* An image is [mode, w, h, px] with px[y][x] the pixel in column x of     *)
(* row y, the tuple of its 8-bit channels: <<v>> for mode "L",             *)
(* <<r, g, b>> for "RGB", <<r, g, b, a>> for "RGBA".                       *)

(* What a call that raised, or has not returned yet, has for a result.     *)
None == [mode |-> "None"]

(* Image.new(mode, (w, h), color)                                          *)
New(mode, w, h, color) ==
    [mode |-> mode, w |-> w, h |-> h,
     px |-> Table([y \in 0..(h - 1) |-> [x \in 0..(w - 1) |-> color]])]

(* image.convert("RGBA"): L replicates the grey value, RGB keeps its       *)
(* channels, both get alpha 255; RGBA is unchanged.                        *)
ToRGBA(mode, v) ==
    CASE mode = "L" -> <<v[1], v[1], v[1], 255>>
      [] mode = "RGB" -> <<v[1], v[2], v[3], 255>>
      [] mode = "RGBA" -> v

ConvertRGBA(im) ==
    [mode |-> "RGBA", w |-> im.w, h |-> im.h,
     px |-> Table([y \in Rows(im) |-> [x \in Cols(im) |->
                ToRGBA(im.mode, im.px[y][x])]])]

(* image.copy(): a new buffer with the same mode, size and pixels.         *)
Copy(im) == im

(* Faulty Paste: the offset is dropped.                                    *)
PasteAtOrigin(dst, src, ox, oy) ==
    [dst EXCEPT !.px =
        Table([y \in Rows(dst) |-> [x \in Cols(dst) |->
            IF x \in Cols(src) /\ y \in Rows(src)
            THEN src.px[y][x]
            ELSE dst.px[y][x]]])]

(* dst.paste(src, (ox, oy)) without a mask: the source pixels replace the  *)
(* destination's inside the box, clipped to the destination.               *)
Paste(dst, src, ox, oy) ==
    [dst EXCEPT !.px =
        Table([y \in Rows(dst) |-> [x \in Cols(dst) |->
            IF x - ox \in Cols(src) /\ y - oy \in Rows(src)
            THEN src.px[y - oy][x - ox]
            ELSE dst.px[y][x]]])]

(* dst.paste(src, (ox, oy), mask) for "L" images with an "L" mask:         *)
(* out = DIV255(out * (255 - mask) + in * mask) inside the box.            *)
PasteMasked(dst, src, ox, oy, mask) ==
    [dst EXCEPT !.px =
        Table([y \in Rows(dst) |-> [x \in Cols(dst) |->
            IF x - ox \in Cols(src) /\ y - oy \in Rows(src)
            THEN <<Div255(dst.px[y][x][1] * (255 - mask.px[y - oy][x - ox][1])
                          + src.px[y - oy][x - ox][1] * mask.px[y - oy][x - ox][1])>>
            ELSE dst.px[y][x]]])]

(* image.getchannel("A") of an RGBA image.                                 *)
GetAlpha(im) ==
    [mode |-> "L", w |-> im.w, h |-> im.h,
     px |-> Table([y \in Rows(im) |-> [x \in Cols(im) |-> <<im.px[y][x][4]>>]])]

(* Faulty PutAlpha: the mask multiplies the alpha instead of               *)
(* replacing it.                                                           *)
PutAlphaMultiply(im, mask) ==
    [im EXCEPT !.px =
        Table([y \in Rows(im) |-> [x \in Cols(im) |->
            <<im.px[y][x][1], im.px[y][x][2], im.px[y][x][3],
              Div255(im.px[y][x][4] * mask.px[y][x][1])>>]])]

(* image.putalpha(mask) on an RGBA image: band 3 is replaced by the mask.  *)
PutAlpha(im, mask) ==
    [im EXCEPT !.px =
        Table([y \in Rows(im) |-> [x \in Cols(im) |->
            <<im.px[y][x][1], im.px[y][x][2], im.px[y][x][3], mask.px[y][x][1]>>]])]

(* ------------------ ImageDraw.rounded_rectangle ----------------------- *)
(* Pillow rasterises an ellipse of doubled semi-axes a, b (the box's width *)
(* and height) by tracing a quarter of its outline in doubled, centred     *)
(* coordinates from (a, b % 2) to (a % 2, b): of the three next points     *)
(* (x, y+2), (x-2, y+2), (x-2, y) it takes the one that deviates least     *)
(* from the ellipse equation.                                              *)
QuarterDelta(a, b, x, y) ==
    LET d == a * a * y * y + b * b * x * x - a * a * b * b
    IN  IF d < 0 THEN 0 - d ELSE d

QuarterNext(a, b, cx, cy) ==
    LET d1 == QuarterDelta(a, b, cx, cy + 2)
        d2 == QuarterDelta(a, b, cx - 2, cy + 2)
        d3 == QuarterDelta(a, b, cx - 2, cy)
    IN  IF cx > 1
        THEN IF Min2(d1, d2) > d3 THEN <<cx - 2, cy>>
             ELSE IF d1 > d2 THEN <<cx - 2, cy + 2>>
             ELSE <<cx, cy + 2>>
        ELSE <<cx, cy + 2>>

RECURSIVE QuarterReach(_, _, _, _, _)
(* The half-width of the filled ellipse on the doubled row Y >= 0: the x   *)
(* of the first traced point on that row.                                  *)
QuarterReach(a, b, cx, cy, Y) ==
    IF cy >= Y THEN cx
    ELSE QuarterReach(a, b, QuarterNext(a, b, cx, cy)[1],
                      QuarterNext(a, b, cx, cy)[2], Y)

(* Pixel (x, y) lies in the filled ellipse inscribed in the box            *)
(* [x0, y0, x1, y1] (both corners inclusive), in the part selected by the  *)
(* signs sx, sy of the centred coordinates: a pieslice between two axis    *)
(* angles, the bounding radii included.                                    *)
InPieslice(x0, y0, x1, y1, sx, sy, x, y) ==
    LET a == x1 - x0
        b == y1 - y0
        X == 2 * (x - x0) - a
        Y == 2 * (y - y0) - b
    IN  /\ x \in x0..x1
        /\ y \in y0..y1
        /\ Max2(X, 0 - X) <= QuarterReach(a, b, a, b % 2, Max2(Y, 0 - Y))
        /\ sx * X >= 0
        /\ sy * Y >= 0

(* draw_rectangle(box, fill): inclusive box; reversed ends are swapped.    *)
InRectangle(x0, y0, x1, y1, x, y) ==
    /\ x \in Min2(x0, x1)..Max2(x0, x1)
    /\ y \in Min2(y0, y1)..Max2(y0, y1)

(* ImageDraw.rounded_rectangle([x0, y0, x1, y1], radius, fill) with all    *)
(* four corners rounded: does the filled shape cover pixel (x, y)?         *)
RoundedRectangleCovers(x0, y0, x1, y1, radius, x, y) ==
    LET d0 == radius * 2
        full_x == d0 >= x1 - x0 - 1
        d1 == IF full_x THEN x1 - x0 ELSE d0
        full_y == d1 >= y1 - y0 - 1
        d == IF full_y THEN y1 - y0 ELSE d1
        r == d \div 2
    IN  IF full_x /\ full_y
        THEN InPieslice(x0, y0, x1, y1, 0, 0, x, y)
        ELSE IF d = 0
        THEN InRectangle(x0, y0, x1, y1, x, y)
        ELSE IF full_x
        THEN \/ InPieslice(x0, y0, x0 + d, y0 + d, 0, -1, x, y)
             \/ InPieslice(x0, y1 - d, x0 + d, y1, 0, 1, x, y)
             \/ InRectangle(x0, y0 + r + 1, x1, y1 - r - 1, x, y)
        ELSE IF full_y
        THEN \/ InPieslice(x0, y0, x0 + d, y0 + d, -1, 0, x, y)
             \/ InPieslice(x1 - d, y0, x1, y0 + d, 1, 0, x, y)
             \/ InRectangle(x0 + r + 1, y0, x1 - r - 1, y1, x, y)
        ELSE \/ InPieslice(x0, y0, x0 + d, y0 + d, -1, -1, x, y)
             \/ InPieslice(x1 - d, y0, x1, y0 + d, 1, -1, x, y)
             \/ InPieslice(x1 - d, y1 - d, x1, y1, 1, 1, x, y)
             \/ InPieslice(x0, y1 - d, x0 + d, y1, -1, 1, x, y)
             \/ InRectangle(x0 + r + 1, y0, x1 - r - 1, y1, x, y)
             \/ InRectangle(x0, y0 + r + 1, x0 + r, y1 - r - 1, x, y)
             \/ InRectangle(x1 - r, y0 + r + 1, x1, y1 - r - 1, x, y)

DrawRoundedRectangle(im, x0, y0, x1, y1, radius, fill) ==
    [im EXCEPT !.px =
        Table([y \in Rows(im) |-> [x \in Cols(im) |->
            IF RoundedRectangleCovers(x0, y0, x1, y1, radius, x, y)
            THEN <<fill>> ELSE im.px[y][x]]])]

(* --------------------- round_corners_no_cutoff ------------------------ *)
(* The frame of round_corners_no_cutoff(image, radius, background_color)   *)
(* at its return: the locals it has bound and the value it returns.        *)
round_corners_no_cutoff(img, radius, background_color) ==
    LET rgba == ConvertRGBA(img)
        w == rgba.w
        h == rgba.h
    IN  IF radius <= 0
        THEN [image |-> rgba, w |-> w, h |-> h, raised |-> "none",
              return |-> Copy(rgba)]
        ELSE LET new_w == w + 2 * radius
                 new_h == h + 2 * radius
                 new_image == Paste(New("RGBA", new_w, new_h, background_color),
                                    rgba, radius, radius)
                 mask == DrawRoundedRectangle(New("L", new_w, new_h, <<0>>),
                                              0, 0, new_w, new_h, radius, 255)
                 rounded == PutAlpha(Copy(new_image), mask)
             IN  [image |-> rgba, w |-> w, h |-> h,
                  new_w |-> new_w, new_h |-> new_h,
                  new_image |-> new_image, mask |-> mask,
                  raised |-> "none", return |-> rounded]

(* ------------------------ ImageFilter / ImageChops -------------------- *)
RECURSIVE SumLine(_, _, _, _, _)
(* Sum of line[Clamp(i, 0, last)] for i in lo..hi.                         *)
SumLine(line, last, lo, hi, acc) ==
    IF lo > hi THEN acc
    ELSE SumLine(line, last, lo + 1, hi, acc + line[Clamp(lo, 0, last)])

(* One pass of Pillow's box blur along a line of 8-bit values indexed      *)
(* 0..last: the 2r+1 pixels around x weigh ww, the two pixels just beyond  *)
(* weigh fw, pixels outside the line repeat its end pixel, and the 8.24    *)
(* fixed-point sum (acc * ww + far * fw + 2^23) >> 24 is taken.  The       *)
(* 32-bit product is formed from 12-bit halves of the weights.             *)
BoxBlurAt(line, last, x, r, ww, fw) ==
    LET acc == SumLine(line, last, x - r, x + r, 0)
        far == line[Clamp(x - r - 1, 0, last)] + line[Clamp(x + r + 1, 0, last)]
        lo == acc * (ww % 4096) + far * (fw % 4096)
        hi == acc * (ww \div 4096) + far * (fw \div 4096) + 2048
    IN  (hi + lo \div 4096) \div 4096

(* The box radius l + an/ad Pillow derives for a Gaussian of variance      *)
(* sn/sd approximated by three box passes (_gaussian_blur_radius), and     *)
(* the fixed-point weights of ImagingHorizontalBoxBlur:                    *)
(* ww = 2^24 / (2 (l + an/ad) + 1), fw = (2^24 - (2l+1) ww) / 2.           *)
BoxWeights(sn, sd) ==
    LET l == CHOOSE k \in 0..(sn + 1) :
                 /\ (2 * k + 1) * (2 * k + 1) * sd <= 4 * sn + sd
                 /\ (2 * k + 3) * (2 * k + 3) * sd > 4 * sn + sd
        an == (2 * l + 1) * (sn - l * (l + 1) * sd)
        ad == 6 * (l + 1) * (l + 1) * sd - 2 * sn
        den == (2 * l + 1) * ad + 2 * an
        ww == ((4096 * ad) \div den) * 4096 + (((4096 * ad) % den) * 4096) \div den
        fw == (16777216 - (2 * l + 1) * ww) \div 2
    IN  [radius |-> l, ww |-> ww, fw |-> fw]

HorizontalBoxBlur(px, w, h, k) ==
    Table([y \in 0..(h - 1) |-> [x \in 0..(w - 1) |->
        <<BoxBlurAt([i \in 0..(w - 1) |-> px[y][i][1]], w - 1, x,
                    k.radius, k.ww, k.fw)>>]])

VerticalBoxBlur(px, w, h, k) ==
    Table([y \in 0..(h - 1) |-> [x \in 0..(w - 1) |->
        <<BoxBlurAt([i \in 0..(h - 1) |-> px[i][x][1]], h - 1, y,
                    k.radius, k.ww, k.fw)>>]])

(* image.filter(ImageFilter.GaussianBlur(sigma)) on an "L" image, with     *)
(* sigma * sigma = sn / sd: three horizontal box passes, then three        *)
(* vertical ones.  A zero sigma returns a copy.                            *)
GaussianBlur(im, sn, sd) ==
    IF sn = 0 THEN Copy(im)
    ELSE LET k == BoxWeights(sn, sd)
             h1 == HorizontalBoxBlur(im.px, im.w, im.h, k)
             h2 == HorizontalBoxBlur(h1, im.w, im.h, k)
             h3 == HorizontalBoxBlur(h2, im.w, im.h, k)
             v1 == VerticalBoxBlur(h3, im.w, im.h, k)
             v2 == VerticalBoxBlur(v1, im.w, im.h, k)
             v3 == VerticalBoxBlur(v2, im.w, im.h, k)
         IN  [im EXCEPT !.px = v3]

(* The largest of im's values in the window of half-width m around (x, y), *)
(* coordinates outside the image taken at its nearest edge pixel.          *)
WindowMax(im, m, x, y) ==
    LET win == {im.px[Clamp(y + j, 0, im.h - 1)][Clamp(x + i, 0, im.w - 1)][1] :
                   i \in (0 - m)..m, j \in (0 - m)..m}
    IN  CHOOSE v \in win : \A u \in win : v >= u

(* Faulty MaxFilter: the window's half-width is one pixel short.           *)
MaxFilterNarrow(im, size) ==
    [im EXCEPT !.px =
        Table([y \in Rows(im) |-> [x \in Cols(im) |->
            <<WindowMax(im, size \div 2 - 1, x, y)>>]])]

(* image.filter(ImageFilter.MaxFilter(size)) on an "L" image: the maximum  *)
(* over the size x size window centred on each pixel, the image being      *)
(* extended by repeating its edge pixels.                                  *)
MaxFilter(im, size) ==
    [im EXCEPT !.px =
        Table([y \in Rows(im) |-> [x \in Cols(im) |->
            <<WindowMax(im, size \div 2, x, y)>>]])]

(* ImageChops.subtract(a, b): a - b clipped to 0..255.                     *)
Subtract(a, b) ==
    [a EXCEPT !.px =
        Table([y \in Rows(a) |-> [x \in Cols(a) |->
            <<Clamp(a.px[y][x][1] - b.px[y][x][1], 0, 255)>>]])]

(* One pixel of Image.alpha_composite(dst, src): src over dst, in          *)
(* Pillow's integer arithmetic with 7 extra bits of precision.             *)
CompositePixel(dst, src) ==
    IF src[4] = 0 THEN dst
    ELSE LET blend == dst[4] * (255 - src[4])
             outa255 == src[4] * 255 + blend
             coef1 == (src[4] * 255 * 255 * 128) \div outa255
             coef2 == 255 * 128 - coef1
             ch(i) == ShiftForDiv255(src[i] * coef1 + dst[i] * coef2 + 128 * 128)
                          \div 128
         IN  <<ch(1), ch(2), ch(3), ShiftForDiv255(outa255 + 128)>>

(* Faulty AlphaComposite: the layers are composited the other way          *)
(* round.                                                                  *)
AlphaCompositeUnder(dst, src) ==
    [dst EXCEPT !.px =
        Table([y \in Rows(dst) |-> [x \in Cols(dst) |->
            CompositePixel(src.px[y][x], dst.px[y][x])]])]

(* Image.alpha_composite(dst, src): src over dst, pixel by pixel.          *)
AlphaComposite(dst, src) ==
    [dst EXCEPT !.px =
        Table([y \in Rows(dst) |-> [x \in Cols(dst) |->
            CompositePixel(dst.px[y][x], src.px[y][x])]])]

(* -------------------------- add_sharp_border -------------------------- *)
(* The frame of add_sharp_border(image, color, width) at its return.  The  *)
(* early return for width <= 0 precedes the conversion to RGBA.            *)
add_sharp_border(img, color, width) ==
    IF width <= 0
    THEN [image |-> img, raised |-> "none", return |-> Copy(img)]
    ELSE LET rgba == ConvertRGBA(img)
             orig_w == rgba.w
             orig_h == rgba.h
             new_w == orig_w + 2 * width
             new_h == orig_h + 2 * width
             expanded_img == Paste(New("RGBA", new_w, new_h, <<0, 0, 0, 0>>),
                                   rgba, width, width)
             alpha == GetAlpha(expanded_img)
             dilated == MaxFilter(alpha, 2 * width + 1)
             ring == Subtract(dilated, alpha)
             border_mask == GaussianBlur(ring, 1, 4)
             border_layer == PutAlpha(New("RGBA", new_w, new_h, color), border_mask)
             out == AlphaComposite(border_layer, expanded_img)
         IN  [image |-> rgba, orig_w |-> orig_w, orig_h |-> orig_h,
              new_w |-> new_w, new_h |-> new_h,
              expanded_img |-> expanded_img, alpha |-> alpha,
              dilated |-> dilated, ring |-> ring,
              border_mask |-> border_mask, raised |-> "none", return |-> out]

(* ------------------------ add_shadow_no_cutoff ------------------------ *)
(* Faulty ExpandBefore: a negative offset is not made room for.            *)
ExpandBeforeNoOffset(sigma, d, extra_padding) ==
    Max2(sigma, 0) + extra_padding

(* Faulty ExpandAfter: a positive offset is not made room for.             *)
ExpandAfterNoOffset(sigma, d, extra_padding) ==
    sigma + extra_padding

(* expand_left / expand_top for the offset d along that axis.              *)
ExpandBefore(sigma, d, extra_padding) ==
    Max3(sigma - d, sigma, 0) + extra_padding

(* expand_right / expand_bottom for the offset d along that axis.          *)
ExpandAfter(sigma, d, extra_padding) ==
    Max2(d, 0) + sigma + extra_padding

(* The frame of add_shadow_no_cutoff(image, shadow_color, (dx, dy), sigma, *)
(* extra_padding) at its return, for integer arguments (int() is then the  *)
(* identity).  Nothing checks sigma; Image.new raises ValueError for a     *)
(* negative width or height, and then nothing is returned.                 *)
add_shadow_no_cutoff(img, shadow_color, dx, dy, sigma, extra_padding) ==
    LET rgba == ConvertRGBA(img)
        orig_w == rgba.w
        orig_h == rgba.h
        expand_left == ExpandBefore(sigma, dx, extra_padding)
        expand_top == ExpandBefore(sigma, dy, extra_padding)
        expand_right == ExpandAfter(sigma, dx, extra_padding)
        expand_bottom == ExpandAfter(sigma, dy, extra_padding)
        new_w == orig_w + expand_left + expand_right
        new_h == orig_h + expand_top + expand_bottom
    IN  IF new_w < 0 \/ new_h < 0
        THEN [image |-> rgba, orig_w |-> orig_w, orig_h |-> orig_h,
              expand_left |-> expand_left, expand_top |-> expand_top,
              expand_right |-> expand_right, expand_bottom |-> expand_bottom,
              new_w |-> new_w, new_h |-> new_h,
              raised |-> "ValueError", return |-> None]
        ELSE LET paste_x == expand_left
                 paste_y == expand_top
                 new_image == Paste(New("RGBA", new_w, new_h, <<0, 0, 0, 0>>),
                                    rgba, paste_x, paste_y)
                 alpha == GetAlpha(rgba)
                 shadow_x == paste_x + dx
                 shadow_y == paste_y + dy
                 pasted_mask == PasteMasked(New("L", new_w, new_h, <<0>>),
                                            alpha, shadow_x, shadow_y, alpha)
                 shadow_mask == GaussianBlur(pasted_mask, sigma * sigma, 1)
                 shadow_layer == PutAlpha(New("RGBA", new_w, new_h, shadow_color),
                                          shadow_mask)
                 final == AlphaComposite(shadow_layer, new_image)
             IN  [image |-> rgba, orig_w |-> orig_w, orig_h |-> orig_h,
                  expand_left |-> expand_left, expand_top |-> expand_top,
                  expand_right |-> expand_right, expand_bottom |-> expand_bottom,
                  new_w |-> new_w, new_h |-> new_h,
                  paste_x |-> paste_x, paste_y |-> paste_y,
                  shadow_x |-> shadow_x, shadow_y |-> shadow_y,
                  new_image |-> new_image, pasted_mask |-> pasted_mask,
                  shadow_mask |-> shadow_mask,
                  raised |-> "none", return |-> final]

(* ----------------------------- inputs --------------------------------- *)
AlphaLevels == <<0, 128, 255>>
Modes == {"L", "RGB", "RGBA"}

(* The input pixel at (x, y): colours vary with the position (0 and 255    *)
(* included); the alpha of an RGBA pixel follows the pattern <<a, b, c>>.  *)
InputPixel(mode, x, y, pat) ==
    LET r == 85 * ((x + 2 * y) % 4)
        g == (70 * y + 25 * x + 5) % 256
        b == 255 - 85 * ((x + y) % 4)
        al == AlphaLevels[((pat[1] * x + pat[2] * y + pat[3]) % 3) + 1]
    IN  CASE mode = "L" -> <<g>>
          [] mode = "RGB" -> <<r, g, b>>
          [] mode = "RGBA" -> <<r, g, b, al>>

InputImage(mode, w, h, pat) ==
    [mode |-> mode, w |-> w, h |-> h,
     px |-> Table([y \in 0..(h - 1) |-> [x \in 0..(w - 1) |->
                InputPixel(mode, x, y, pat)]])]

Patterns == (0..2) \X (0..2) \X (0..2)
UniformPatterns == {<<0, 0, c>> : c \in 0..2}

Images(pats) ==
    {InputImage(mode, w, h, pat) :
        mode \in Modes, w \in 1..MaxW, h \in 1..MaxH, pat \in pats}

Radii == (0 - 1)..MaxRadius
Widths == (0 - 1)..MaxBorder
Offsets == (0 - MaxOffset)..MaxOffset
NegativeSigmas == {0 - 2, 0 - 1}
Sigmas == NegativeSigmas \cup (0..MaxSigma)
Paddings == {0, MaxPad}
Colors == {<<0, 0, 0, 0>>, <<255, 0, 0, 255>>, <<10, 200, 30, 100>>}
ShadowColors == {<<0, 0, 0, 100>>}

(* ------------------- the image functions' callers --------------------- *)
(* image: the argument; call: the function called and its other           *)
(* arguments; locals: the callee's frame when it returns or raises         *)
(* (locals.raised names the exception); ret: the value it returns.         *)
NoCall == [fn |-> "none"]

InitImage(imgs) ==
    /\ image \in imgs
    /\ call = NoCall
    /\ locals = [raised |-> "none"]
    /\ ret = None

CallRoundCorners ==
    /\ call = NoCall
    /\ \E radius \in Radii, background_color \in Colors :
          LET f == round_corners_no_cutoff(image, radius, background_color)
          IN  /\ call' = [fn |-> "round_corners_no_cutoff", radius |-> radius,
                          background_color |-> background_color]
              /\ locals' = f
              /\ ret' = f.return
    /\ UNCHANGED <<image, capVars>>

CallSharpBorder ==
    /\ call = NoCall
    /\ \E color \in Colors, width \in Widths :
          LET f == add_sharp_border(image, color, width)
          IN  /\ call' = [fn |-> "add_sharp_border", color |-> color, width |-> width]
              /\ locals' = f
              /\ ret' = f.return
    /\ UNCHANGED <<image, capVars>>

CallShadow ==
    /\ call = NoCall
    /\ \E shadow_color \in ShadowColors, dx \in Offsets, dy \in Offsets,
          sigma \in Sigmas, extra_padding \in Paddings :
          LET f == add_shadow_no_cutoff(image, shadow_color, dx, dy, sigma,
                                        extra_padding)
          IN  /\ call' = [fn |-> "add_shadow_no_cutoff",
                          shadow_color |-> shadow_color, dx |-> dx, dy |-> dy,
                          sigma |-> sigma, extra_padding |-> extra_padding]
              /\ locals' = f
              /\ ret' = f.return
    /\ UNCHANGED <<image, capVars>>

(* ----------------------- color_detection.py --------------------------- *)
TrackbarNames == {"LH", "LS", "LV", "UH", "US", "UV"}
TrackbarPositions == {0, 128, 255}
(* waitKey results: no key, ESC, 'a', and a code whose low byte is ESC.    *)
Keys == {0 - 1, 27, 97, 283}
ESC == 27

(* The state after lines 7-15: the capture opened, the "Tracking" window   *)
(* and its six trackbars created with their initial positions.             *)
InitCapture ==
    /\ pc = "read"
    /\ cap = "open"
    /\ frame = "unset"
    /\ key = 0 - 1
    /\ windows = {"Tracking"}
    /\ trackbar = [n \in TrackbarNames |-> IF n \in {"LH", "LS", "LV"} THEN 0 ELSE 255]
    /\ range = "unset"
    /\ nread = 0

(* line 18: _, frame = cap.read(); the flag is dropped, and frame is None  *)
(* when the device delivers nothing.                                       *)
Read ==
    /\ pc = "read"
    /\ nread < MaxFrames
    /\ \E f \in {"frame", "None"} : frame' = f
    /\ nread' = nread + 1
    /\ pc' = "process"
    /\ UNCHANGED <<cap, key, windows, trackbar, range, imgVars>>

(* lines 20-39: cvtColor raises on None and the script ends there;         *)
(* otherwise the six trackbars are read into l_color and u_color and the   *)
(* frame, the mask and the result are shown in their windows.              *)
Process ==
    /\ pc = "process"
    /\ IF frame = "None"
       THEN /\ pc' = "raised"
            /\ UNCHANGED <<range, windows>>
       ELSE /\ range' = [l_color |-> <<trackbar["LH"], trackbar["LS"], trackbar["LV"]>>,
                         u_color |-> <<trackbar["UH"], trackbar["US"], trackbar["UV"]>>]
            /\ windows' = windows \cup {"frame", "mask", "result"}
            /\ pc' = "waitKey"
    /\ UNCHANGED <<cap, frame, key, trackbar, nread, imgVars>>

(* line 41: waitKey(1) runs the GUI events (a trackbar may be moved) and   *)
(* returns a key code; the loop breaks when its low byte is 27.            *)
WaitKey ==
    /\ pc = "waitKey"
    /\ \E k \in Keys : /\ key' = k
                       /\ pc' = IF k % 256 = ESC THEN "release" ELSE "read"
    /\ \/ UNCHANGED trackbar
       \/ \E n \in TrackbarNames, v \in TrackbarPositions :
             trackbar' = [trackbar EXCEPT ![n] = v]
    /\ UNCHANGED <<cap, frame, windows, range, nread, imgVars>>

(* line 44: cap.release()                                                  *)
Release ==
    /\ pc = "release"
    /\ cap' = "released"
    /\ pc' = "destroy"
    /\ UNCHANGED <<frame, key, windows, trackbar, range, nread, imgVars>>

(* line 45: cv.destroyAllWindows()                                         *)
DestroyAllWindows ==
    /\ pc = "destroy"
    /\ windows' = {}
    /\ pc' = "done"
    /\ UNCHANGED <<cap, frame, key, trackbar, range, nread, imgVars>>

(* -------------------------- specifications ---------------------------- *)
(* Spec: one call of round_corners_no_cutoff or add_sharp_border on an     *)
(* input image; SpecShadow: one call of add_shadow_no_cutoff; SpecCapture: *)
(* the capture loop.                                                       *)
Init == InitImage(Images(Patterns)) /\ InitCapture
Next == CallRoundCorners \/ CallSharpBorder
Spec == Init /\ [][Next]_vars

InitShadow == InitImage(Images(UniformPatterns)) /\ InitCapture
NextShadow == CallShadow
SpecShadow == InitShadow /\ [][NextShadow]_vars

InitLoop == InitImage({InputImage("RGBA", 1, 1, <<0, 0, 2>>)}) /\ InitCapture
NextCapture == Read \/ Process \/ WaitKey \/ Release \/ DestroyAllWindows
SpecCapture == InitLoop /\ [][NextCapture]_vars

(* ============================== claims ================================ *)
(* What the claims say of the input, stated from the input image alone.    *)
OrigRGBA(im, x, y) ==
    LET v == im.px[y][x]
    IN  CASE im.mode = "L" -> <<v[1], v[1], v[1], 255>>
          [] im.mode = "RGB" -> <<v[1], v[2], v[3], 255>>
          [] im.mode = "RGBA" -> <<v[1], v[2], v[3], v[4]>>

ExpectedRGBA(im) ==
    [mode |-> "RGBA", w |-> im.w, h |-> im.h,
     px |-> [y \in Rows(im) |-> [x \in Cols(im) |-> OrigRGBA(im, x, y)]]]

(* The RGBA pixel the original contributes at canvas position (x, y) when  *)
(* pasted at (ox, oy); transparent where it contributes nothing.           *)
PastedRGBA(im, ox, oy, x, y) ==
    IF x - ox \in Cols(im) /\ y - oy \in Rows(im)
    THEN OrigRGBA(im, x - ox, y - oy)
    ELSE <<0, 0, 0, 0>>

Dist(a, b) == IF a >= b THEN a - b ELSE b - a
Rounding == call.fn = "round_corners_no_cutoff"
Bordering == call.fn = "add_sharp_border"
Shadowing == call.fn = "add_shadow_no_cutoff"

(* C1: identity passthrough.  With radius <= 0 round_corners_no_cutoff     *)
(* returns a buffer equal to the RGBA-converted input, and with            *)
(* width <= 0 add_sharp_border does too, whatever the input's mode.        *)
C1_IdentityPassthrough ==
    /\ (Rounding /\ call.radius <= 0) => ret = ExpectedRGBA(image)
    /\ (Bordering /\ call.width <= 0) => ret = ExpectedRGBA(image)

(* add_sharp_border called with width 0 on an RGB image hands back an RGB  *)
(* buffer: line 59 returns before the conversion of line 62.               *)
C1_Witness ==
    /\ Bordering
    /\ call.width = 0
    /\ image.mode = "RGB"
    /\ ret.mode = "RGB"
    /\ ret # ExpectedRGBA(image)

(* C2: canvas sizing of the rounding.  For radius r > 0 the result is      *)
(* exactly (w + 2r) x (h + 2r) and the output pixel at (x + r, y + r)      *)
(* carries the R, G, B of the original pixel (x, y).                       *)
C2_RoundCanvasExact ==
    (Rounding /\ call.radius > 0) =>
        /\ ret.mode = "RGBA"
        /\ ret.w = image.w + 2 * call.radius
        /\ ret.h = image.h + 2 * call.radius
        /\ DOMAIN ret.px = 0..(image.h + 2 * call.radius - 1)
        /\ \A y \in Rows(image) :
              /\ DOMAIN ret.px[y + call.radius] = 0..(image.w + 2 * call.radius - 1)
              /\ \A x \in Cols(image), i \in 1..3 :
                    ret.px[y + call.radius][x + call.radius][i]
                        = OrigRGBA(image, x, y)[i]

(* A rounding with r = 2 of a 2 x 2 RGBA image on an opaque red            *)
(* background, whose result is 6 pixels wide.                              *)
C2_Witness ==
    /\ Rounding
    /\ call.radius = 2
    /\ call.background_color = <<255, 0, 0, 255>>
    /\ image.mode = "RGBA" /\ image.w = 2 /\ image.h = 2
    /\ ret.w = 6

NonzeroPasted(b) ==
    {q \in (0..(image.w + 2 * b - 1)) \X (0..(image.h + 2 * b - 1)) :
        PastedRGBA(image, b, b, q[1], q[2])[4] # 0}

(* Canvas pixel (x, y) is within Chebyshev distance b of a nonzero-alpha   *)
(* original pixel.                                                         *)
NearSilhouette(b, x, y) ==
    \E q \in NonzeroPasted(b) : Dist(x, q[1]) <= b /\ Dist(y, q[2]) <= b

(* C6: border ring containment.  For width b > 0 the un-blurred border     *)
(* mask (dilated alpha minus alpha) is 0 where the pasted original has     *)
(* alpha 255, 0 farther than b (Chebyshev) from every nonzero-alpha        *)
(* original pixel, nonzero at every zero-alpha canvas pixel within b of    *)
(* one, and all those ring pixels lie inside the (w + 2b) x (h + 2b)       *)
(* canvas.                                                                 *)
C6_BorderRingContained ==
    (Bordering /\ call.width > 0) =>
        LET b == call.width
            W == image.w + 2 * b
            H == image.h + 2 * b
        IN  /\ locals.ring.w = W /\ locals.ring.h = H
            /\ ret.w = W /\ ret.h = H
            /\ \A y \in 0..(H - 1), x \in 0..(W - 1) :
                  LET a == PastedRGBA(image, b, b, x, y)[4]
                      m == locals.ring.px[y][x][1]
                  IN  /\ a = 255 => m = 0
                      /\ ~NearSilhouette(b, x, y) => m = 0
                      /\ (a = 0 /\ NearSilhouette(b, x, y)) => m > 0
            /\ \A q \in NonzeroPasted(b), i \in (0 - b)..b, j \in (0 - b)..b :
                  /\ q[1] + i \in 0..(W - 1)
                  /\ q[2] + j \in 0..(H - 1)

(* A border of width 1 around an image with an opaque pixel, where some    *)
(* canvas pixel is farther than 1 from the silhouette and some             *)
(* transparent pixel of the original itself lies within 1 of it.           *)
C6_Witness ==
    /\ Bordering
    /\ call.width = 1
    /\ \E y \in Rows(image), x \in Cols(image) : OrigRGBA(image, x, y)[4] = 255
    /\ \E y \in 0..(ret.h - 1), x \in 0..(ret.w - 1) :
          /\ ~NearSilhouette(1, x, y)
          /\ locals.ring.px[y][x][1] = 0
    /\ \E y \in Rows(image), x \in Cols(image) :
          /\ OrigRGBA(image, x, y)[4] = 0
          /\ NearSilhouette(1, x + 1, y + 1)
          /\ locals.ring.px[y + 1][x + 1][1] > 0

(* C7: border layering order.  For width b > 0 the result is               *)
(* (w + 2b) x (h + 2b); where the pasted original has alpha 255 the output *)
(* is the original pixel's RGBA; where it has alpha 0 the output's alpha   *)
(* is the border mask's coverage and, wherever that is nonzero, its RGB    *)
(* is the border colour's.                                                 *)
C7_BorderUnderOriginal ==
    (Bordering /\ call.width > 0) =>
        LET b == call.width
            W == image.w + 2 * b
            H == image.h + 2 * b
        IN  /\ ret.w = W /\ ret.h = H /\ ret.mode = "RGBA"
            /\ \A y \in 0..(H - 1), x \in 0..(W - 1) :
                  LET o == PastedRGBA(image, b, b, x, y)
                      m == locals.border_mask.px[y][x][1]
                      p == ret.px[y][x]
                  IN  /\ o[4] = 255 => p = o
                      /\ o[4] = 0 =>
                            /\ p[4] = m
                            /\ m # 0 => \A i \in 1..3 : p[i] = call.color[i]

(* A red border around an image with an opaque pixel under which the       *)
(* softened border mask is nonzero, and which the output shows unchanged.  *)
C7_Witness ==
    /\ Bordering
    /\ call.width > 0
    /\ call.color = <<255, 0, 0, 255>>
    /\ \E y \in Rows(image), x \in Cols(image) :
          /\ OrigRGBA(image, x, y)[4] = 255
          /\ OrigRGBA(image, x, y) # call.color
          /\ locals.border_mask.px[y + call.width][x + call.width][1] > 0
          /\ ret.px[y + call.width][x + call.width] = OrigRGBA(image, x, y)
    /\ \E y \in 0..(ret.h - 1), x \in 0..(ret.w - 1) :
          /\ PastedRGBA(image, call.width, call.width, x, y)[4] = 0
          /\ ret.px[y][x][4] > 0

C5_ShadowNotClipped ==
    (Shadowing /\ call.sigma >= 0 /\ call.extra_padding >= 0) =>
        /\ locals.raised = "none"
        /\ \A y \in Rows(locals.shadow_mask), x \in Cols(locals.shadow_mask) :
              (x \in {0, locals.new_w - 1} \/ y \in {0, locals.new_h - 1})
                  => locals.shadow_mask.px[y][x][1] <= 1

(* An opaque 2 x 2 image, no offset, sigma 1, no extra padding: the        *)
(* blurred shadow reaches the corner of the 4 x 4 canvas with coverage     *)
(* well above 1.                                                           *)
C5_Witness ==
    /\ Shadowing
    /\ call.sigma = 1 /\ call.extra_padding = 0
    /\ call.dx = 0 /\ call.dy = 0
    /\ image.w = 2 /\ image.h = 2
    /\ \A y \in Rows(image), x \in Cols(image) : OrigRGBA(image, x, y)[4] = 255
    /\ locals.new_w = 4 /\ locals.new_h = 4
    /\ locals.shadow_mask.px[0][0][1] > 1
    /\ locals.shadow_mask.px[0][1][1] > locals.shadow_mask.px[0][0][1]

(* C8: a negative sigma is rejected.  Whenever add_shadow_no_cutoff is     *)
(* called with sigma < 0 the call raises before any canvas is built and    *)
(* returns no buffer.                                                      *)
C8_NegativeSigmaRejected ==
    (Shadowing /\ call.sigma < 0) =>
        /\ locals.raised # "none"
        /\ ret = None

(* sigma = -1 is accepted: nothing is raised and a buffer comes back, its  *)
(* canvas sized from the negative value.                                   *)
C8_Witness ==
    /\ Shadowing
    /\ call.sigma = 0 - 1
    /\ call.dx = 0 /\ call.dy = 0 /\ call.extra_padding = 0
    /\ locals.raised = "none"
    /\ ret # None
    /\ ret.w = image.w - 1

(* C10: the shadow's footprint keeps a full margin.  For sigma >= 0 and    *)
(* extraPadding >= 0 the pasted original at (paste_x, paste_y) and the     *)
(* un-blurred shadow at (paste_x + dx, paste_y + dy), each w x h, lie      *)
(* inside the canvas, the shadow at least sigma + extraPadding from each   *)
(* of the four edges; no paste is cropped, no paste coordinate negative.   *)
C10_ShadowFootprintMargins ==
    (Shadowing /\ call.sigma >= 0 /\ call.extra_padding >= 0) =>
        LET m == call.sigma + call.extra_padding
            W == ret.w
            H == ret.h
        IN  /\ locals.paste_x >= 0 /\ locals.paste_y >= 0
            /\ locals.paste_x + image.w <= W
            /\ locals.paste_y + image.h <= H
            /\ locals.shadow_x = locals.paste_x + call.dx
            /\ locals.shadow_y = locals.paste_y + call.dy
            /\ locals.shadow_x >= m
            /\ locals.shadow_y >= m
            /\ W - (locals.shadow_x + image.w) >= m
            /\ H - (locals.shadow_y + image.h) >= m
            /\ locals.pasted_mask.w = W /\ locals.pasted_mask.h = H
            /\ \A y \in 0..(H - 1), x \in 0..(W - 1) :
                  (locals.pasted_mask.px[y][x][1] # 0)
                      <=> (PastedRGBA(image, locals.shadow_x, locals.shadow_y,
                                      x, y)[4] # 0)

(* A shadow thrown up and to the right (dx > 0 > dy) with sigma 1          *)
(* of an image that is not fully transparent.                              *)
C10_Witness ==
    /\ Shadowing
    /\ call.dx > 0 /\ call.dy < 0
    /\ call.sigma = 1
    /\ \E y \in Rows(image), x \in Cols(image) : OrigRGBA(image, x, y)[4] # 0
    /\ \E y \in Rows(locals.pasted_mask), x \in Cols(locals.pasted_mask) :
          locals.pasted_mask.px[y][x][1] # 0
    /\ locals.shadow_x > locals.paste_x
    /\ locals.shadow_y < locals.paste_y

(* C9: shutdown ordering of the capture loop.  Frames are read and shown   *)
(* only while no ESC (27) has been observed by waitKey; the capture is     *)
(* released and the windows destroyed only after ESC has been observed; no *)
(* frame is read after that; and whenever the loop has been left, a frame  *)
(* read that yields no frame included, the capture ends up released.       *)
C9_ShutdownOrdering ==
    /\ pc \in {"read", "process", "waitKey"} => key % 256 # ESC
    /\ pc \in {"release", "destroy", "done"} => key % 256 = ESC
    /\ cap = "released" => key % 256 = ESC
    /\ windows = {} => (cap = "released" /\ key % 256 = ESC)
    /\ pc \in {"done", "raised"} => cap = "released"

(* A read that yields no frame: cvtColor has raised, the script has ended, *)
(* no ESC was observed and the capture was never released.                 *)
C9_Witness ==
    /\ pc = "raised"
    /\ frame = "None"
    /\ cap = "open"
    /\ key % 256 # ESC
    /\ nread > 1

====
